---- MODULE Spec2Model ----
(***************************************************************************)
(* A model of rlist, a reading list kept in a sqlite database.             *)
(*                                                                         *)
(* The state is the content of the three tables created by RList::init     *)
(* (rlist, topics, rlist_has_topic) plus the last call made on the RList   *)
(* facade and what it returned.  Every public method of RList is one       *)
(* action; the DBEntry / DBTopic helpers it calls are operators that take  *)
(* the database and return the database after the statement together with  *)
(* the statement's result.                                                 *)
(***************************************************************************)
EXTENDS Integers, Sequences, FiniteSets, Bags, TLC

\* ------------------------------------------------------------------ bounds

\* Largest rowid an entry may get: sqlite's rowids are unbounded.
MaxId == 2
\* Longest topic list handed to add / edit / remove_by_topics / import.
MaxLen == 2
\* Longest batch handed to import.
MaxBatch == 2

\* ------------------------------------------------------------ input domains

Names == {"n1", "n2"}
Urls == {"u1", "u2"}
\* SpecCols has a name and a url no add uses, for an edit to move to.
MoreNames == {"n1", "n2", "n3"}
MoreUrls == {"u1", "u2", "u3"}
\* "NULL" is the text to_sql() stores for a missing author.
AuthorStrs == {"A", "NULL"}
TopicNames == {"a", "b"}
\* SpecTopics has a third topic.
MoreTopicNames == {"a", "b", "c"}
\* What the clock (datetime('now','localtime')) may read when a row is
\* inserted; Epoch is a clock that stands still.
Times == {1, 2}
Epoch == {1}

\* Option<T>: None is the empty tuple, Some(x) the one-element tuple.
None == <<>>
Some(x) == <<x>>
IsSome(o) == o # <<>>
IsNone(o) == o = <<>>
Unwrap(o) == o[1]
Opt(S) == {None} \cup {Some(x) : x \in S}

SeqsUpTo(S, n) == UNION {[1..k -> S] : k \in 0..n}
TopicLists == SeqsUpTo(TopicNames, MaxLen)

Range(s) == {s[i] : i \in 1..Len(s)}
MaxOf(S) == CHOOSE m \in S : \A x \in S : x <= m
MinOf(S) == CHOOSE m \in S : \A x \in S : m <= x

RECURSIVE SortedSeq(_)
SortedSeq(S) ==
    IF S = {} THEN <<>>
    ELSE LET m == MinOf(S) IN <<m>> \o SortedSeq(S \ {m})

RECURSIVE Repeat(_, _)
Repeat(x, n) == IF n = 0 THEN <<>> ELSE <<x>> \o Repeat(x, n - 1)

RECURSIVE Flatten(_)
Flatten(ss) == IF ss = <<>> THEN <<>> ELSE Head(ss) \o Flatten(Tail(ss))

\* ------------------------------------------------------------------ state

VARIABLES rlist, topics, rlist_has_topic, call, ret

vars == <<rlist, topics, rlist_has_topic, call, ret>>

\* The database as one value: tables rlist and topics are sets of rows,
\* rlist_has_topic is a bag of (entry_id, topic_id) rows.
DB == [rlist |-> rlist, topics |-> topics, links |-> rlist_has_topic]

\* ---------------------------------------------------------------- results

\* Result<T>: Ok(val) or Err of a kind, with the database the call left.
Ok(db, val) == [ok |-> TRUE, err |-> "", db |-> db, val |-> val]
Err(db, kind) == [ok |-> FALSE, err |-> kind, db |-> db, val |-> <<>>]

\* ------------------------------------------------------------------ utils

to_sql(author) == IF IsSome(author) THEN Unwrap(author) ELSE "NULL"

opt_from_sql(repr) == IF repr = "NULL" THEN None ELSE Some(repr)

Entry_new(name, url, author, tps, added) ==
    [name |-> name, url |-> url, author |-> author, topics |-> tps, added |-> added]

\* ----------------------------------------------------------------- schema

\* INTEGER PRIMARY KEY without AUTOINCREMENT: the next rowid is one more than
\* the largest in the table, so the rowid of a deleted last row is used again.
NextRowid(ids) == IF ids = {} THEN 1 ELSE MaxOf(ids) + 1

\* rlist.name UNIQUE, rlist.url UNIQUE
UniqueViolationNameOnly(tbl, self_id, name, url) ==
    \E r \in tbl : r.entry_id # self_id /\ r.name = name

UniqueViolation(tbl, self_id, name, url) ==
    \E r \in tbl : r.entry_id # self_id /\ (r.name = name \/ r.url = url)

\* FOREIGN KEY (entry_id) REFERENCES rlist ON DELETE CASCADE, with
\* PRAGMA foreign_keys = ON: deleting entries deletes their link rows.
KeepRows(B, rows) == [row \in rows |-> B[row]]

DeleteEntriesNoCascade(db, ids) ==
    [db EXCEPT !.rlist = {r \in @ : r.entry_id \notin ids}]

DeleteEntries(db, ids) ==
    [db EXCEPT !.rlist = {r \in @ : r.entry_id \notin ids},
               !.links = KeepRows(@, {row \in DOMAIN @ : row.entry_id \notin ids})]

\* The insert of one link row, had the table no primary key: the row is added
\* beside the one that is there.
InsertLink_NoKey(B, row) == B (+) SetToBag({row})

\* PRIMARY KEY (entry_id, topic_id) with ON CONFLICT ... DO UPDATE SET
\* entry_id=entry_id: a row that is already there is left as it is.
InsertLink(B, row) == IF BagIn(row, B) THEN B ELSE B (+) SetToBag({row})

RECURSIVE InsertLinks(_, _, _)
InsertLinks(B, entry_id, topic_ids) ==
    IF topic_ids = <<>> THEN B
    ELSE InsertLinks(InsertLink(B, [entry_id |-> entry_id, topic_id |-> Head(topic_ids)]),
                     entry_id, Tail(topic_ids))

\* ---------------------------------------------------------------- DBTopic

\* The insert of one topic name, had the statement been INSERT OR REPLACE: the
\* row of a name that is there gives way to a new row.
UpsertTopic_Replace(tbl, name) ==
    {t \in tbl : t.name # name}
        \cup {[topic_id |-> NextRowid({t.topic_id : t \in tbl}), name |-> name]}

\* INSERT INTO topics (name) VALUES (?) ON CONFLICT (name) DO UPDATE SET name=name
UpsertTopic(tbl, name) ==
    IF \E t \in tbl : t.name = name THEN tbl
    ELSE tbl \cup {[topic_id |-> NextRowid({t.topic_id : t \in tbl}), name |-> name]}

RECURSIVE UpsertTopics(_, _)
UpsertTopics(tbl, names) ==
    IF names = <<>> THEN tbl
    ELSE UpsertTopics(UpsertTopic(tbl, Head(names)), Tail(names))

TopicIdOf(tbl, name) == (CHOOSE t \in tbl : t.name = name).topic_id

\* An empty list makes "VALUES  ON CONFLICT", which sqlite refuses to prepare.
create_many(db, names) ==
    IF names = <<>> THEN Err(db, "Infrastructure")
    ELSE LET tbl == UpsertTopics(db.topics, names)
         IN  Ok([db EXCEPT !.topics = tbl],
                [i \in 1..Len(names) |-> TopicIdOf(tbl, names[i])])

\* The join of topics and rlist_has_topic for one entry, in topic_id order
\* (the order of the primary key index), one row per link row.
get_related_to(db, entry_id) ==
    LET tids == {t.topic_id : t \in db.topics}
        linked == SortedSeq({row.topic_id : row \in
                      {x \in DOMAIN db.links : x.entry_id = entry_id /\ x.topic_id \in tids}})
        nameOf(id) == (CHOOSE t \in db.topics : t.topic_id = id).name
    IN  Flatten([i \in 1..Len(linked) |->
                    Repeat(<<linked[i], nameOf(linked[i])>>,
                           CopiesIn([entry_id |-> entry_id, topic_id |-> linked[i]], db.links))])

DBTopic_get_id_from_name(db, topic) ==
    IF \E t \in db.topics : t.name = topic
    THEN Ok(db, TopicIdOf(db.topics, topic))
    ELSE Err(db, "NotFound")

\* ---------------------------------------------------------------- DBEntry

associate_with_topics(db, entry_id, topic_ids) ==
    IF topic_ids = <<>> THEN Err(db, "Infrastructure")
    ELSE IF \/ entry_id \notin {r.entry_id : r \in db.rlist}
            \/ \E i \in 1..Len(topic_ids) : topic_ids[i] \notin {t.topic_id : t \in db.topics}
         THEN Err(db, "Infrastructure")
         ELSE Ok([db EXCEPT !.links = InsertLinks(@, entry_id, topic_ids)], <<>>)

DBEntry_create(db, name, url, author, now) ==
    IF UniqueViolation(db.rlist, 0, name, url) THEN Err(db, "Conflict")
    ELSE LET id == NextRowid({r.entry_id : r \in db.rlist})
             row == [entry_id |-> id, name |-> name, url |-> url,
                     author |-> to_sql(author), added |-> now]
         IN  Ok([db EXCEPT !.rlist = @ \cup {row}],
                <<id, Entry_new(name, url, author, <<>>, now)>>)

DBEntry_get_id_from_name(db, name) ==
    IF \E r \in db.rlist : r.name = name
    THEN Some((CHOOSE r \in db.rlist : r.name = name).entry_id)
    ELSE None

TopicNamesOf(rows) == [i \in 1..Len(rows) |-> rows[i][2]]

\* remove_by_name, had it read the topics after the DELETE.
DBEntry_remove_by_name_FetchAfter(db, name) ==
    LET entry_id == DBEntry_get_id_from_name(db, name)
    IN  IF IsNone(entry_id) THEN Err(db, "NotFound")
        ELSE LET old == CHOOSE r \in db.rlist : r.name = name
                 after == DeleteEntries(db, {old.entry_id})
                 tps == TopicNamesOf(get_related_to(after, Unwrap(entry_id)))
             IN  Ok(after, Entry_new(old.name, old.url, opt_from_sql(old.author), tps, old.added))

DBEntry_remove_by_name(db, name) ==
    LET entry_id == DBEntry_get_id_from_name(db, name)
    IN  IF IsNone(entry_id) THEN Err(db, "NotFound")
        ELSE LET tps == TopicNamesOf(get_related_to(db, Unwrap(entry_id)))
                 old == CHOOSE r \in db.rlist : r.name = name
             IN  Ok(DeleteEntries(db, {r.entry_id : r \in {x \in db.rlist : x.name = name}}),
                    Entry_new(old.name, old.url, opt_from_sql(old.author), tps, old.added))

unlink_all_topics(db, entry_id) ==
    Ok([db EXCEPT !.links = KeepRows(@, {row \in DOMAIN @ : row.entry_id # entry_id})], <<>>)

\* An empty list makes "name IN ()", which sqlite accepts and no row satisfies.
unlink_topics_by_name(db, entry_id, names) ==
    LET tids == {t.topic_id : t \in {x \in db.topics : x.name \in Range(names)}}
    IN  Ok([db EXCEPT !.links =
                KeepRows(@, {row \in DOMAIN @ :
                                ~(row.entry_id = entry_id /\ row.topic_id \in tids)})],
           <<>>)

get_by_name_without_topics(db, name) ==
    IF ~ \E r \in db.rlist : r.name = name THEN Err(db, "NotFound")
    ELSE LET r == CHOOSE x \in db.rlist : x.name = name
         IN  Ok(db, <<r.entry_id, Entry_new(r.name, r.url, opt_from_sql(r.author), <<>>, r.added)>>)

\* remove_related_to, had it spared the entries that have another topic too.
remove_related_to_OnlyTopic(db, topic_id) ==
    LET linked == {row.entry_id : row \in {x \in DOMAIN db.links : x.topic_id = topic_id}}
        others == {row.entry_id : row \in {x \in DOMAIN db.links : x.topic_id # topic_id}}
    IN  Ok(DeleteEntries(db, linked \ others), <<>>)

remove_related_to(db, topic_id) ==
    Ok(DeleteEntries(db, {row.entry_id : row \in {x \in DOMAIN db.links : x.topic_id = topic_id}}),
       <<>>)

\* ------------------------------------------------------------------ RList

\* add, had it made the topic rows before the entry row.
RList_add_TopicsFirst(db, name, url, author, tps, now) ==
    LET m == IF Len(tps) > 0 THEN create_many(db, tps) ELSE Ok(db, <<>>)
        c == DBEntry_create(m.db, name, url, author, now)
        a == associate_with_topics(c.db, c.val[1], m.val)
    IN  IF ~c.ok THEN c
        ELSE IF Len(tps) > 0
             THEN IF ~a.ok THEN a ELSE Ok(a.db, [c.val[2] EXCEPT !.topics = tps])
             ELSE Ok(c.db, [c.val[2] EXCEPT !.topics = tps])

RList_add(db, name, url, author, tps, now) ==
    LET c == DBEntry_create(db, name, url, author, now)
    IN  IF ~c.ok THEN c
        ELSE LET entry_id == c.val[1]
                 entry == c.val[2]
                 m == create_many(c.db, tps)
                 a == associate_with_topics(m.db, entry_id, m.val)
             IN  IF Len(tps) > 0
                 THEN IF ~m.ok THEN m
                      ELSE IF ~a.ok THEN a
                      ELSE Ok(a.db, [entry EXCEPT !.topics = tps])
                 ELSE Ok(c.db, [entry EXCEPT !.topics = tps])

RList_remove_by_name(db, name) == DBEntry_remove_by_name(db, name)

\* The rows of rlist LEFT OUTER JOIN rlist_has_topic LEFT OUTER JOIN topics for
\* one entry: one row per link, or one row with a NULL topic when it has none.
JoinRowsOf(db, r) ==
    LET ids == SortedSeq({x.topic_id : x \in {l \in DOMAIN db.links : l.entry_id = r.entry_id}})
        topicOf(id) == IF \E t \in db.topics : t.topic_id = id
                       THEN Some((CHOOSE t \in db.topics : t.topic_id = id).name)
                       ELSE None
        row(tp) == [name |-> r.name, url |-> r.url, author |-> r.author,
                    added |-> r.added, topic |-> tp]
    IN  IF ids = <<>> THEN <<row(None)>>
        ELSE Flatten([i \in 1..Len(ids) |->
                 Repeat(row(topicOf(ids[i])),
                        CopiesIn([entry_id |-> r.entry_id, topic_id |-> ids[i]], db.links))])

\* The rows of the whole join, entries in rowid order.
JoinRows(db) ==
    LET ids == SortedSeq({r.entry_id : r \in db.rlist})
        entryOf(id) == CHOOSE r \in db.rlist : r.entry_id = id
    IN  Flatten([i \in 1..Len(ids) |-> JoinRowsOf(db, entryOf(ids[i]))])

\* The loop over the statement's rows, had it made a new entry of every row.
RECURSIVE Aggregate_NoGrouping(_, _)
Aggregate_NoGrouping(rows, res) ==
    IF rows = <<>> THEN res
    ELSE LET row == Head(rows)
         IN  Aggregate_NoGrouping(Tail(rows),
                 Append(res, Entry_new(row.name, row.url, opt_from_sql(row.author),
                                       row.topic, row.added)))

\* The loop over the statement's rows: a row whose name is already in res adds
\* its topic to that entry, any other row makes a new entry.
RECURSIVE Aggregate(_, _)
Aggregate(rows, res) ==
    IF rows = <<>> THEN res
    ELSE LET row == Head(rows)
             at == {i \in 1..Len(res) : res[i].name = row.name}
         IN  IF at # {}
             THEN LET pos == MinOf(at)
                  IN  Aggregate(Tail(rows),
                          IF IsSome(row.topic)
                          THEN [res EXCEPT ![pos].topics = Append(@, Unwrap(row.topic))]
                          ELSE res)
             ELSE Aggregate(Tail(rows),
                      Append(res, Entry_new(row.name, row.url, opt_from_sql(row.author),
                                            row.topic, row.added)))

\* get_all_complete, had its statement joined the tables with inner joins: an
\* entry without a link has no row.
get_all_complete_InnerJoin(db) ==
    LET linked(row) == IsSome(row.topic)
    IN  Ok(db, Aggregate(SelectSeq(JoinRows(db), linked), <<>>))

\* Every entry with its topics: the join of query() with no WHERE and no
\* ORDER BY, aggregated by the same loop.
get_all_complete(db) == Ok(db, Aggregate(JoinRows(db), <<>>))

RList_dump_all(db) == get_all_complete(db)

\* The filter on topics, had AND mode counted the names of the list and not
\* the names of its set.
TopicFilter_ListLen(res, tps, or) ==
    IF IsNone(tps) THEN res
    ELSE LET required == Range(Unwrap(tps))
             keep(e) == LET n == Cardinality(Range(e.topics) \cap required)
                        IN  IF or THEN n > 0 ELSE n = Len(Unwrap(tps))
         IN  SelectSeq(res, keep)

\* The filter on topics applied to the aggregated entries.
TopicFilter(res, tps, or) ==
    IF IsNone(tps) THEN res
    ELSE LET required == Range(Unwrap(tps))
             keep(e) == LET n == Cardinality(Range(e.topics) \cap required)
                        IN  IF or THEN n > 0 ELSE n = Cardinality(required)
         IN  SelectSeq(res, keep)

\* The bytes of the strings the calls of query are made with and of the
\* strings stored beside them (ASCII).
Text(s) ==
    CASE s = "ab" -> <<97, 98>>
      [] s = "Ab" -> <<65, 98>>
      [] s = "b" -> <<98>>
      [] s = "a" -> <<97>>
      [] s = "_" -> <<95>>
      [] s = "A" -> <<65>>
      [] s = "Z" -> <<90>>
      [] s = "z" -> <<122>>
      [] s = "N" -> <<78>>
      [] s = "NULL" -> <<78, 85, 76, 76>>
      [] s = "U" -> <<85>>
      [] s = "1" -> <<49>>
      [] s = "u1" -> <<117, 49>>
      [] s = "u2" -> <<117, 50>>
      [] s = "u3" -> <<117, 51>>
      [] s = "n1" -> <<110, 49>>
      [] s = "n2" -> <<110, 50>>
      [] s = "n3" -> <<110, 51>>

\* sqlite's LIKE compares the 26 letters of ASCII without regard to case.
LikeFold(c) == IF c \in 65..90 THEN c + 32 ELSE c

\* pattern LIKE text, with no ESCAPE: % stands for any run of bytes, _ for
\* any one byte.
RECURSIVE LikeMatch(_, _)
LikeMatch(pattern, text) ==
    IF pattern = <<>> THEN text = <<>>
    ELSE IF Head(pattern) = 37
         THEN LikeMatch(Tail(pattern), text)
              \/ (text # <<>> /\ LikeMatch(pattern, Tail(text)))
         ELSE /\ text # <<>>
              /\ (Head(pattern) = 95 \/ LikeFold(Head(pattern)) = LikeFold(Head(text)))
              /\ LikeMatch(Tail(pattern), Tail(text))

\* col LIKE '%' || :q || '%'
LikeContains(col, q) == LikeMatch(<<37>> \o Text(q) \o <<37>>, Text(col))

\* The comparison of two TEXT values under the BINARY collation: -1, 0 or 1.
RECURSIVE BinaryCompare(_, _)
BinaryCompare(x, y) ==
    IF x = <<>> THEN (IF y = <<>> THEN 0 ELSE -1)
    ELSE IF y = <<>> THEN 1
    ELSE IF Head(x) < Head(y) THEN -1
    ELSE IF Head(x) > Head(y) THEN 1
    ELSE BinaryCompare(Tail(x), Tail(y))

\* "%Y-%m-%d %H:%M:%S" of a DateTimeUtc: the second, without its fraction.
\* Two such strings compare as their seconds do.
dt_to_string(dt) == dt.secs

\* The WHERE clause of query on one row of the join.
WhereClause(row, q) ==
    /\ IsSome(q.query) => LikeContains(row.name, Unwrap(q.query))
    /\ IsSome(q.author) => LikeContains(row.author, Unwrap(q.author))
    /\ IsSome(q.url) => LikeContains(row.url, Unwrap(q.url))
    /\ IsSome(q.from) => row.added >= dt_to_string(Unwrap(q.from))
    /\ IsSome(q.to) => row.added <= dt_to_string(Unwrap(q.to))

\* ORDER BY <sort_by>: whether row r1 may stand before row r2, ascending.
RowLeq(sort_by, r1, r2) ==
    CASE sort_by = "name" -> BinaryCompare(Text(r1.name), Text(r2.name)) <= 0
      [] sort_by = "url" -> BinaryCompare(Text(r1.url), Text(r2.url)) <= 0
      [] sort_by = "author" -> BinaryCompare(Text(r1.author), Text(r2.author)) <= 0
      [] sort_by = "added" -> r1.added <= r2.added

\* One row put in its place in a sorted list, behind the rows equal to it.
RECURSIVE InsertRow(_, _, _, _)
InsertRow(sorted, row, sort_by, desc) ==
    IF sorted = <<>> THEN <<row>>
    ELSE IF (IF desc THEN RowLeq(sort_by, row, Head(sorted))
                     ELSE RowLeq(sort_by, Head(sorted), row))
         THEN <<Head(sorted)>> \o InsertRow(Tail(sorted), row, sort_by, desc)
         ELSE <<row>> \o sorted

\* ORDER BY <sort_by> ASC | DESC on the rows of the join; rows with the same
\* key stay in the order of the join.
RECURSIVE OrderRows(_, _, _, _)
OrderRows(rows, sorted, sort_by, desc) ==
    IF rows = <<>> THEN sorted
    ELSE OrderRows(Tail(rows), InsertRow(sorted, Head(rows), sort_by, desc), sort_by, desc)

\* The rows of the SELECT of query: the join, the WHERE clause, the ORDER BY.
SelectRows(db, q) ==
    LET keep(row) == WhereClause(row, q)
        rows == SelectSeq(JoinRows(db), keep)
    IN  IF IsSome(q.sort_by) THEN OrderRows(rows, <<>>, Unwrap(q.sort_by), q.desc)
        ELSE rows

RList_query(db, q) == Ok(db, TopicFilter(Aggregate(SelectRows(db, q), <<>>), q.topics, q.or))

\* The arguments of a call of query with no option at all.
NoQuery ==
    [query |-> None, topics |-> None, author |-> None, url |-> None, sort_by |-> None,
     desc |-> FALSE, from |-> None, to |-> None, or |-> FALSE]

\* query() with no row filter and no sort key, as remove_by_topic calls it.
RList_query_topics(db, tps, or) == RList_query(db, [NoQuery EXCEPT !.topics = tps, !.or = or])

\* remove_by_topic, had it deleted the topic row after the entries.
RList_remove_by_topic_DropTopic(db, topic) ==
    LET t == DBTopic_get_id_from_name(db, topic)
    IN  IF ~t.ok THEN t
        ELSE LET entries == RList_query_topics(db, Some(<<topic>>), FALSE)
                 r == remove_related_to(db, t.val)
             IN  Ok([r.db EXCEPT !.topics = {x \in @ : x.topic_id # t.val},
                                 !.links = KeepRows(@, {l \in DOMAIN @ : l.topic_id # t.val})],
                    entries.val)

RList_remove_by_topic(db, topic) ==
    LET t == DBTopic_get_id_from_name(db, topic)
    IN  IF ~t.ok THEN t
        ELSE LET entries == RList_query_topics(db, Some(<<topic>>), FALSE)
                 r == remove_related_to(db, t.val)
             IN  Ok(r.db, entries.val)

RECURSIVE RemoveByTopicsLoop(_, _, _)
RemoveByTopicsLoop(db, tps, res) ==
    IF tps = <<>> THEN Ok(db, res)
    ELSE LET r == RList_remove_by_topic(db, Head(tps))
         IN  IF ~r.ok THEN r
             ELSE RemoveByTopicsLoop(r.db, Tail(tps), res \o r.val)

\* remove_by_topics, had it gathered the entries of every topic before it
\* deleted any.
RECURSIVE GatherLoop(_, _, _)
GatherLoop(db, tps, res) ==
    IF tps = <<>> THEN res
    ELSE GatherLoop(db, Tail(tps), res \o RList_query_topics(db, Some(<<Head(tps)>>), FALSE).val)

RList_remove_by_topics_GatherFirst(db, tps) ==
    LET r == RemoveByTopicsLoop(db, tps, <<>>)
    IN  IF ~r.ok THEN r ELSE Ok(r.db, GatherLoop(db, tps, <<>>))

\* remove_by_topics, had it run in a transaction that an error rolls back.
RList_remove_by_topics_RollBack(db, tps) ==
    LET r == RemoveByTopicsLoop(db, tps, <<>>)
    IN  IF r.ok THEN r ELSE Err(db, r.err)

RList_remove_by_topics(db, tps) == RemoveByTopicsLoop(db, tps, <<>>)

\* The UPDATE, had it set all three columns, an absent author as NULL.
UpdateEntry_AllColumns(db, a) ==
    IF ~ \E r \in db.rlist : r.name = a.old_name THEN Err(db, "NotFound")
    ELSE LET old == CHOOSE r \in db.rlist : r.name = a.old_name
             new == [old EXCEPT
                        !.name = IF IsSome(a.new_name) THEN Unwrap(a.new_name) ELSE @,
                        !.author = to_sql(a.author),
                        !.url = IF IsSome(a.url) THEN Unwrap(a.url) ELSE @]
         IN  IF UniqueViolation(db.rlist, old.entry_id, new.name, new.url)
             THEN Err(db, "Conflict")
             ELSE Ok([db EXCEPT !.rlist = (@ \ {old}) \cup {new}],
                     <<new.entry_id,
                       Entry_new(new.name, new.url, opt_from_sql(new.author), <<>>, new.added)>>)

\* UPDATE rlist SET <the supplied columns> WHERE name = :old_name RETURNING *
\* No row: the "Could not find any entry" error. A UNIQUE violation: sqlite's
\* constraint error, passed on by `?`, named Conflict here as in create.
UpdateEntry(db, a) ==
    IF ~ \E r \in db.rlist : r.name = a.old_name THEN Err(db, "NotFound")
    ELSE LET old == CHOOSE r \in db.rlist : r.name = a.old_name
             new == [old EXCEPT
                        !.name = IF IsSome(a.new_name) THEN Unwrap(a.new_name) ELSE @,
                        !.author = IF IsSome(a.author) THEN Unwrap(a.author) ELSE @,
                        !.url = IF IsSome(a.url) THEN Unwrap(a.url) ELSE @]
         IN  IF UniqueViolation(db.rlist, old.entry_id, new.name, new.url)
             THEN Err(db, "Conflict")
             ELSE Ok([db EXCEPT !.rlist = (@ \ {old}) \cup {new}],
                     <<new.entry_id,
                       Entry_new(new.name, new.url, opt_from_sql(new.author), <<>>, new.added)>>)

NoEditOption(a) ==
    /\ IsNone(a.new_name) /\ IsNone(a.author) /\ IsNone(a.url)
    /\ IsNone(a.topics) /\ IsNone(a.add_topics) /\ ~a.clear_topics
    /\ IsNone(a.remove_topics)

\* The topic part of edit, had remove_topics been applied before the additions.
EditTopics_RemoveFirst(db, a, entry_id, entry) ==
    LET s1 == IF a.clear_topics \/ IsSome(a.topics)
              THEN unlink_all_topics(db, entry_id)
              ELSE Ok(db, <<>>)
        s2 == IF IsSome(a.remove_topics)
              THEN unlink_topics_by_name(s1.db, entry_id, Unwrap(a.remove_topics))
              ELSE s1
        topics_to_add == IF IsSome(a.topics) THEN a.topics ELSE a.add_topics
        m == create_many(s2.db, Unwrap(topics_to_add))
        l == associate_with_topics(m.db, entry_id, m.val)
        s3 == IF IsSome(topics_to_add)
              THEN IF ~m.ok THEN m ELSE l
              ELSE s2
    IN  IF ~s3.ok THEN s3
        ELSE Ok(s3.db, [entry EXCEPT !.topics = TopicNamesOf(get_related_to(s3.db, entry_id))])

\* The topic part of edit, had the returned list been put together from the
\* lists of the call and not read from the link table.
EditTopics_InMemory(db, a, entry_id, entry) ==
    LET s1 == IF a.clear_topics \/ IsSome(a.topics)
              THEN unlink_all_topics(db, entry_id)
              ELSE Ok(db, <<>>)
        before == TopicNamesOf(get_related_to(s1.db, entry_id))
        topics_to_add == IF IsSome(a.topics) THEN a.topics ELSE a.add_topics
        m == create_many(s1.db, Unwrap(topics_to_add))
        l == associate_with_topics(m.db, entry_id, m.val)
        s2 == IF IsSome(topics_to_add)
              THEN IF ~m.ok THEN m ELSE l
              ELSE s1
        s3 == IF IsSome(a.remove_topics)
              THEN unlink_topics_by_name(s2.db, entry_id, Unwrap(a.remove_topics))
              ELSE s2
        listed == before \o (IF IsSome(topics_to_add) THEN Unwrap(topics_to_add) ELSE <<>>)
        removed(n) == IsNone(a.remove_topics) \/ n \notin Range(Unwrap(a.remove_topics))
    IN  IF ~s2.ok THEN s2
        ELSE Ok(s3.db, [entry EXCEPT !.topics = SelectSeq(listed, removed)])

\* The topic part of edit, on the entry the first part found.
EditTopics(db, a, entry_id, entry) ==
    LET s1 == IF a.clear_topics \/ IsSome(a.topics)
              THEN unlink_all_topics(db, entry_id)
              ELSE Ok(db, <<>>)
        topics_to_add == IF IsSome(a.topics) THEN a.topics ELSE a.add_topics
        m == create_many(s1.db, Unwrap(topics_to_add))
        l == associate_with_topics(m.db, entry_id, m.val)
        s2 == IF IsSome(topics_to_add)
              THEN IF ~m.ok THEN m ELSE l
              ELSE s1
        s3 == IF IsSome(a.remove_topics)
              THEN unlink_topics_by_name(s2.db, entry_id, Unwrap(a.remove_topics))
              ELSE s2
    IN  IF ~s2.ok THEN s2
        ELSE Ok(s3.db, [entry EXCEPT !.topics = TopicNamesOf(get_related_to(s3.db, entry_id))])

\* edit, had it made the topic rows of the call before looking the entry up.
RList_edit_TopicsFirst(db, a) ==
    IF NoEditOption(a) THEN Err(db, "InvalidArgument")
    ELSE LET topics_to_add == IF IsSome(a.topics) THEN a.topics ELSE a.add_topics
             m == IF IsSome(topics_to_add) /\ topics_to_add # Some(<<>>)
                  THEN create_many(db, Unwrap(topics_to_add))
                  ELSE Ok(db, <<>>)
             first == IF IsNone(a.new_name) /\ IsNone(a.author) /\ IsNone(a.url)
                      THEN get_by_name_without_topics(m.db, a.old_name)
                      ELSE UpdateEntry(m.db, a)
         IN  IF ~first.ok THEN first
             ELSE EditTopics(first.db, a, first.val[1], first.val[2])

\* edit, had it looked the entry up before refusing a call with no option.
RList_edit_LookupFirst(db, a) ==
    LET first == IF IsNone(a.new_name) /\ IsNone(a.author) /\ IsNone(a.url)
                 THEN get_by_name_without_topics(db, a.old_name)
                 ELSE UpdateEntry(db, a)
    IN  IF ~first.ok THEN first
        ELSE IF NoEditOption(a) THEN Err(db, "InvalidArgument")
        ELSE EditTopics(first.db, a, first.val[1], first.val[2])

RList_edit(db, a) ==
    IF NoEditOption(a) THEN Err(db, "InvalidArgument")
    ELSE LET first == IF IsNone(a.new_name) /\ IsNone(a.author) /\ IsNone(a.url)
                      THEN get_by_name_without_topics(db, a.old_name)
                      ELSE UpdateEntry(db, a)
         IN  IF ~first.ok THEN first
             ELSE EditTopics(first.db, a, first.val[1], first.val[2])

\* import, had it stopped at the first entry it could not create.
RECURSIVE ImportLoop_StopAtConflict(_, _, _, _)
ImportLoop_StopAtConflict(db, entries, c, now) ==
    IF entries = <<>> THEN Ok(db, c)
    ELSE LET e == Head(entries)
             cr == DBEntry_create(db, e.name, e.url, e.author, now)
             m == create_many(cr.db, e.topics)
             l == associate_with_topics(m.db, cr.val[1], m.val)
         IN  IF ~cr.ok THEN Ok(db, c)
             ELSE IF ~m.ok THEN ImportLoop_StopAtConflict(cr.db, Tail(entries), c, now)
             ELSE IF ~l.ok THEN ImportLoop_StopAtConflict(m.db, Tail(entries), c, now)
             ELSE ImportLoop_StopAtConflict(l.db, Tail(entries), c + 1, now)

RECURSIVE ImportLoop(_, _, _, _)
ImportLoop(db, entries, c, now) ==
    IF entries = <<>> THEN Ok(db, c)
    ELSE LET e == Head(entries)
             cr == DBEntry_create(db, e.name, e.url, e.author, now)
             m == create_many(cr.db, e.topics)
             l == associate_with_topics(m.db, cr.val[1], m.val)
         IN  IF ~cr.ok THEN ImportLoop(db, Tail(entries), c, now)
             ELSE IF ~m.ok THEN ImportLoop(cr.db, Tail(entries), c, now)
             ELSE IF ~l.ok THEN ImportLoop(m.db, Tail(entries), c, now)
             ELSE ImportLoop(l.db, Tail(entries), c + 1, now)

RList_import(db, entries, now) == ImportLoop(db, entries, 0, now)

\* ------------------------------------------------------------ call domains

EditArgsOf(names, cols, tparts) ==
    {[old_name |-> n, new_name |-> c.new_name, author |-> c.author, url |-> c.url,
      topics |-> t.topics, add_topics |-> t.add_topics,
      clear_topics |-> t.clear_topics, remove_topics |-> t.remove_topics] :
        n \in names, c \in cols, t \in tparts}

ColOpts == [new_name : Opt(Names), author : Opt(AuthorStrs), url : Opt(Urls)]
NoColOpts == [new_name : {None}, author : {None}, url : {None}]

TopicOpts(lists) ==
    [topics : Opt(lists), add_topics : Opt(lists), clear_topics : BOOLEAN,
     remove_topics : Opt(lists)]

NumTopicOpts(t) ==
    (IF IsSome(t.topics) THEN 1 ELSE 0) + (IF IsSome(t.add_topics) THEN 1 ELSE 0)
    + (IF t.clear_topics THEN 1 ELSE 0) + (IF IsSome(t.remove_topics) THEN 1 ELSE 0)

\* Spec: every column option, with at most one topic option of at most one name.
EditArgs ==
    EditArgsOf(Names, ColOpts, {t \in TopicOpts(SeqsUpTo(TopicNames, 1)) : NumTopicOpts(t) <= 1})

\* SpecCols: every column option, with a third name and a third url to move
\* to, alone or with --clear-topics.
EditColArgs ==
    EditArgsOf(Names,
               [new_name : Opt(MoreNames), author : Opt(AuthorStrs), url : Opt(MoreUrls)],
               [topics : {None}, add_topics : {None},
                clear_topics : BOOLEAN, remove_topics : {None}])

\* SpecTopics: every combination of topic options, with no column option; the
\* lists are the empty one, one name, two names, one name twice.
EditLists == {<<>>, <<"a">>, <<"c">>, <<"a", "b">>, <<"a", "a">>}
EditTopicArgs == EditArgsOf(Names, NoColOpts, TopicOpts(EditLists))

\* SpecTopics: each name comes with its own url.
UrlOf(name) == IF name = "n1" THEN "u1" ELSE "u2"

\* SpecQuery: names that differ in case, each with its own url; authors on
\* both sides of the text NULL.
QNames == {"ab", "Ab", "b"}
UrlFor(name) == CASE name = "ab" -> "u1" [] name = "Ab" -> "u2" [] name = "b" -> "u3"
QAuthors == {"A", "Z"}

\* DateTimeUtc values: a second and whether a fraction of a second follows it.
FromDates == {[secs |-> 1, nanos |-> 1], [secs |-> 2, nanos |-> 0]}
ToDates == {[secs |-> 1, nanos |-> 0], [secs |-> 1, nanos |-> 1]}

\* SpecQuery: calls with row filters alone, and calls with a sort key, alone
\* or with --topics a.
RowQueries ==
    {[NoQuery EXCEPT !.query = f.query, !.author = f.author, !.url = f.url,
                     !.from = f.from, !.to = f.to] :
        f \in [query : Opt({"a", "_"}), author : Opt({"N", "z"}), url : Opt({"U"}),
               from : Opt(FromDates), to : Opt(ToDates)]}

SortKeys == {"name", "url", "author", "added"}

SortQueries ==
    {[NoQuery EXCEPT !.sort_by = Some(f.sort_by), !.desc = f.desc, !.topics = f.topics] :
        f \in [sort_by : SortKeys, desc : BOOLEAN, topics : {None, Some(<<"a">>)}]}

\* SpecQTopics: calls with a topic list, empty or not, in both modes, alone or
\* with a name filter.
TopicQueries ==
    {[NoQuery EXCEPT !.topics = f.topics, !.or = f.or, !.query = f.query] :
        f \in [topics : Opt(SeqsUpTo(MoreTopicNames, MaxLen)), or : BOOLEAN,
               query : {None, Some("1")}]}

\* SpecRepo: the ids a caller can hand to associate_with_topics, of topics
\* that exist and of topics that do not.
TopicIds == 1..Cardinality(MoreTopicNames)

\* SpecRepo: edit with --topics alone, the list empty or not.
EditSetArgs ==
    EditArgsOf(Names, NoColOpts,
               [topics : {Some(<<>>), Some(<<"a">>)}, add_topics : {None},
                clear_topics : {FALSE}, remove_topics : {None}])

ImportEntries ==
    [name : Names, url : Urls, author : {None}, topics : {<<>>, <<"b">>}]
Batches == SeqsUpTo(ImportEntries, MaxBatch)

\* ---------------------------------------------------------------- actions

Init ==
    /\ rlist = {}
    /\ topics = {}
    /\ rlist_has_topic = EmptyBag
    /\ call = [op |-> "init"]
    /\ ret = Ok(<<>>, <<>>)

\* What a call leaves behind: the tables, and the Result it returned.
Returns(result) ==
    \E r \in {result} :
        /\ rlist' = r.db.rlist
        /\ topics' = r.db.topics
        /\ rlist_has_topic' = r.db.links
        /\ ret' = [r EXCEPT !.db = <<>>]

\* main() makes one call on a fresh RList and exits.
Fresh == call.op = "init"

AddOp(name, url, author, tps, now) ==
    /\ NextRowid({r.entry_id : r \in rlist}) <= MaxId
    /\ call' = [op |-> "add", name |-> name, url |-> url, author |-> author,
                topics |-> tps]
    /\ Returns(RList_add(DB, name, url, author, tps, now))

RemoveByNameOp(name) ==
    /\ call' = [op |-> "remove_by_name", name |-> name]
    /\ Returns(RList_remove_by_name(DB, name))

RemoveByTopicsOp(tps) ==
    /\ call' = [op |-> "remove_by_topics", topics |-> tps]
    /\ Returns(RList_remove_by_topics(DB, tps))

EditOp(a) ==
    /\ call' = [op |-> "edit", args |-> a]
    /\ Returns(RList_edit(DB, a))

ImportOp(entries, now) ==
    /\ \A r \in RList_import(DB, entries, now).db.rlist : r.entry_id <= MaxId
    /\ call' = [op |-> "import", entries |-> entries]
    /\ Returns(RList_import(DB, entries, now))

QueryOp(q) ==
    /\ call' = [op |-> "query", args |-> q]
    /\ Returns(RList_query(DB, q))

DumpAllOp ==
    /\ call' = [op |-> "dump_all"]
    /\ Returns(RList_dump_all(DB))

CreateOp(name, url, author, now) ==
    /\ NextRowid({r.entry_id : r \in rlist}) <= MaxId
    /\ call' = [op |-> "create", name |-> name, url |-> url, author |-> author]
    /\ Returns(DBEntry_create(DB, name, url, author, now))

CreateManyOp(names) ==
    /\ call' = [op |-> "create_many", names |-> names]
    /\ Returns(create_many(DB, names))

AssociateOp(entry_id, topic_ids) ==
    /\ call' = [op |-> "associate_with_topics", entry_id |-> entry_id,
                topic_ids |-> topic_ids]
    /\ Returns(associate_with_topics(DB, entry_id, topic_ids))

UnlinkByNameOp(entry_id, names) ==
    /\ call' = [op |-> "unlink_topics_by_name", entry_id |-> entry_id, names |-> names]
    /\ Returns(unlink_topics_by_name(DB, entry_id, names))

\* The process ends; the next one opens the same file, where RList::init
\* finds the tables (CREATE TABLE IF NOT EXISTS) and leaves them alone.
Restart ==
    /\ call.op # "init"
    /\ call' = [op |-> "init"]
    /\ ret' = Ok(<<>>, <<>>)
    /\ UNCHANGED <<rlist, topics, rlist_has_topic>>

\* Spec: every operation, the clock standing still.
Add ==
    /\ Fresh
    /\ \E name \in Names, url \in Urls, author \in Opt(AuthorStrs),
          tps \in TopicLists, now \in Epoch :
           AddOp(name, url, author, tps, now)

RemoveByName == Fresh /\ \E name \in Names : RemoveByNameOp(name)

RemoveByTopics == Fresh /\ \E tps \in TopicLists : RemoveByTopicsOp(tps)

Edit == Fresh /\ \E a \in EditArgs : EditOp(a)

Import == Fresh /\ \E entries \in Batches, now \in Epoch : ImportOp(entries, now)

DumpAll == Fresh /\ DumpAllOp

Next ==
    \/ Add
    \/ RemoveByName
    \/ RemoveByTopics
    \/ Edit
    \/ Import
    \/ DumpAll
    \/ Restart

Spec == Init /\ [][Next]_vars

\* SpecCols: entries with topic "a" or none, the clock moving, edits of the columns.
AddCols ==
    /\ Fresh
    /\ \E name \in Names, url \in Urls, author \in Opt(AuthorStrs),
          tps \in {<<>>, <<"a">>}, now \in Times :
           AddOp(name, url, author, tps, now)

EditCols == Fresh /\ \E a \in EditColArgs : EditOp(a)

RemoveCols == Fresh /\ \E name \in MoreNames : RemoveByNameOp(name)

NextCols ==
    \/ AddCols
    \/ RemoveCols
    \/ EditCols
    \/ Restart

SpecCols == Init /\ [][NextCols]_vars

\* SpecTopics: entries that differ in their topics only, edits of the topics.
AddTopics ==
    /\ Fresh
    /\ \E name \in Names, tps \in SeqsUpTo(MoreTopicNames, MaxLen), now \in Epoch :
           AddOp(name, UrlOf(name), None, tps, now)

EditTopicsOnly == Fresh /\ \E a \in EditTopicArgs : EditOp(a)

NextTopics ==
    \/ AddTopics
    \/ RemoveByName
    \/ EditTopicsOnly
    \/ Restart

SpecTopics == Init /\ [][NextTopics]_vars

\* SpecQuery: entries with and without an author and topics, added at two
\* times, and queries on them by row filters or with a sort key.
AddQuery ==
    /\ Fresh
    /\ \E name \in QNames, author \in Opt(QAuthors), tps \in {<<>>, <<"a", "b">>},
          now \in Times :
           AddOp(name, UrlFor(name), author, tps, now)

QueryRows == Fresh /\ \E q \in RowQueries \cup SortQueries : QueryOp(q)

NextQuery ==
    \/ AddQuery
    \/ QueryRows
    \/ DumpAll
    \/ Restart

SpecQuery == Init /\ [][NextQuery]_vars

\* SpecQTopics: entries with every topic list, and queries on them by topics.
QueryByTopics == Fresh /\ \E q \in TopicQueries : QueryOp(q)

NextQTopics ==
    \/ AddTopics
    \/ QueryByTopics
    \/ Restart

SpecQTopics == Init /\ [][NextQTopics]_vars

\* SpecRepo: the calls on DBEntry and DBTopic that add, edit and import are
\* made of, one at a time on entries without author, and edit with --topics.
Create ==
    /\ Fresh
    /\ \E name \in Names, now \in Epoch : CreateOp(name, UrlOf(name), None, now)

CreateMany == Fresh /\ \E names \in SeqsUpTo(MoreTopicNames, MaxLen) : CreateManyOp(names)

Associate ==
    /\ Fresh
    /\ \E entry_id \in 1..MaxId, topic_ids \in SeqsUpTo(TopicIds, MaxLen) :
           AssociateOp(entry_id, topic_ids)

UnlinkByName ==
    /\ Fresh
    /\ \E entry_id \in 1..MaxId, names \in SeqsUpTo(MoreTopicNames, MaxLen) :
           UnlinkByNameOp(entry_id, names)

EditSet == Fresh /\ \E a \in EditSetArgs : EditOp(a)

NextRepo ==
    \/ Create
    \/ CreateMany
    \/ Associate
    \/ UnlinkByName
    \/ EditSet
    \/ Restart

SpecRepo == Init /\ [][NextRepo]_vars

\* ----------------------------------------------------------------- claims

\* The names of the topics an entry is linked to.
TopicSetOf(db, entry_id) ==
    {t.name : t \in {x \in db.topics :
        [entry_id |-> entry_id, topic_id |-> x.topic_id] \in DOMAIN db.links}}

LinksOfOthers(db, entry_id) ==
    KeepRows(db.links, {l \in DOMAIN db.links : l.entry_id # entry_id})

EntryNamed(db, name) == CHOOSE r \in db.rlist : r.name = name

StoreUnchanged == UNCHANGED <<rlist, topics, rlist_has_topic>>

\* C1: in every reachable state no two distinct rows of rlist have the same
\* name, and no two have the same url.
C1_UniqueNameAndUrl ==
    \A e1 \in rlist, e2 \in rlist :
        e1 # e2 => (e1.name # e2.name /\ e1.url # e2.url /\ e1.entry_id # e2.entry_id)

\* Two entries are stored and the last call was an edit that asked for the
\* url of the other entry, and was refused.
C1_Witness ==
    /\ Cardinality(rlist) = 2
    /\ call.op = "edit" /\ ~ret.ok /\ ret.err = "Conflict"
    /\ IsNone(call.args.new_name) /\ IsSome(call.args.url)

\* C2: an add whose name or url is already stored fails with Conflict and
\* leaves the three tables as they were.
C2_AddConflictLeavesStore ==
    [][(/\ call'.op = "add"
        /\ \E r \in rlist : r.name = call'.name \/ r.url = call'.url)
       => (/\ ~ret'.ok /\ ret'.err = "Conflict"
           /\ StoreUnchanged)]_vars

\* A refused add that named a topic the topics table does not hold.
C2_Witness ==
    /\ call.op = "add" /\ ~ret.ok /\ ret.err = "Conflict"
    /\ \E i \in 1..Len(call.topics) : call.topics[i] \notin {t.name : t \in topics}
    /\ \E r \in rlist : r.url = call.url /\ r.name # call.name

\* C3: every row of rlist_has_topic names an entry_id of rlist and a topic_id
\* of topics.
C3_NoOrphanLinks ==
    \A l \in DOMAIN rlist_has_topic :
        /\ \E r \in rlist : r.entry_id = l.entry_id
        /\ \E t \in topics : t.topic_id = l.topic_id

\* An entry with topics was removed by name while another entry keeps its links.
C3_Witness ==
    /\ call.op = "remove_by_name" /\ ret.ok
    /\ ret.val.topics # <<>>
    /\ rlist_has_topic # EmptyBag

NoDuplicates(seq) == Cardinality(Range(seq)) = Len(seq)

Supplied(o) == IF IsSome(o) THEN Range(Unwrap(o)) ELSE {}

\* C4: remove_by_name of a name that is not stored fails with NotFound and
\* leaves the tables as they were; of a stored name, it returns that row with
\* the topics it was linked to, each once, deletes the row and its links, and
\* leaves the other rows, their links and the topics table as they were.
C4_RemoveByName ==
    [][call'.op = "remove_by_name" =>
        IF ~ \E r \in rlist : r.name = call'.name
        THEN ~ret'.ok /\ ret'.err = "NotFound" /\ StoreUnchanged
        ELSE LET old == EntryNamed(DB, call'.name)
             IN  /\ ret'.ok
                 /\ ret'.val.name = old.name /\ ret'.val.url = old.url
                 /\ ret'.val.added = old.added
                 /\ Range(ret'.val.topics) = TopicSetOf(DB, old.entry_id)
                 /\ NoDuplicates(ret'.val.topics)
                 /\ rlist' = rlist \ {old}
                 /\ rlist_has_topic' = LinksOfOthers(DB, old.entry_id)
                 /\ topics' = topics]_vars

\* An entry linked to two topics was removed; another entry and its links stay.
C4_Witness ==
    /\ call.op = "remove_by_name" /\ ret.ok
    /\ Len(ret.val.topics) = 2
    /\ rlist # {} /\ rlist_has_topic # EmptyBag

\* C5: after a successful edit whose topic lists are not empty, the entry is
\* linked to (Base \cup Added) \ removeTopics, where Base is empty if topics is
\* given or clear_topics is set and the old topic set otherwise, and Added is
\* topics if given, else add_topics if given, else empty; and an edit that
\* gives topics alone ends as the edit with clear_topics and the same list as
\* add_topics would.
C5_EditTopicSet ==
    [][(/\ call'.op = "edit" /\ ret'.ok
        /\ \A o \in {call'.args.topics, call'.args.add_topics, call'.args.remove_topics} :
              IsSome(o) => Unwrap(o) # <<>>)
       => LET a == call'.args
              id == EntryNamed(DB, a.old_name).entry_id
              Old == TopicSetOf(DB, id)
              Base == IF IsSome(a.topics) \/ a.clear_topics THEN {} ELSE Old
              Added == IF IsSome(a.topics) THEN Supplied(a.topics)
                       ELSE Supplied(a.add_topics)
              after == [rlist |-> rlist', topics |-> topics', links |-> rlist_has_topic']
              b == [a EXCEPT !.topics = None, !.clear_topics = TRUE, !.add_topics = a.topics]
          IN  /\ TopicSetOf(after, id) = (Base \cup Added) \ Supplied(a.remove_topics)
              /\ IsSome(a.topics) =>
                    \E other \in {RList_edit(DB, b)} :
                        other.ok /\ TopicSetOf(other.db, id) = TopicSetOf(after, id)]_vars

\* An edit gave topics = [c] and add_topics = [a, b] and the entry is linked to
\* c alone, a and b being topics other links remain to.
C5_Witness ==
    /\ call.op = "edit" /\ ret.ok
    /\ call.args.topics = Some(<<"c">>) /\ IsNone(call.args.remove_topics)
    /\ call.args.add_topics = Some(<<"a", "b">>)
    /\ {"a", "b"} \subseteq {t.name : t \in topics}
    /\ ret.val.topics = <<"c">>
    /\ Cardinality(DOMAIN rlist_has_topic) = 3

\* C6: a successful edit changes, in the row named old_name, the columns it
\* was given and no other (added and entry_id never), and leaves every other
\* row and every other row's links as they were.
C6_EditColumns ==
    [][(call'.op = "edit" /\ ret'.ok)
       => LET a == call'.args
              old == EntryNamed(DB, a.old_name)
              new == CHOOSE r \in rlist' : r.entry_id = old.entry_id
              after == [rlist |-> rlist', topics |-> topics', links |-> rlist_has_topic']
          IN  /\ \E r \in rlist' : r.entry_id = old.entry_id
              /\ new.name = (IF IsSome(a.new_name) THEN Unwrap(a.new_name) ELSE old.name)
              /\ new.author = (IF IsSome(a.author) THEN Unwrap(a.author) ELSE old.author)
              /\ new.url = (IF IsSome(a.url) THEN Unwrap(a.url) ELSE old.url)
              /\ new.added = old.added
              /\ rlist' \ {new} = rlist \ {old}
              /\ LinksOfOthers(after, old.entry_id) = LinksOfOthers(DB, old.entry_id)]_vars

\* An edit gave a new name alone to an entry with an author, added at 2, beside
\* another entry with a link.
C6_Witness ==
    /\ call.op = "edit" /\ ret.ok
    /\ IsSome(call.args.new_name) /\ IsNone(call.args.author) /\ IsNone(call.args.url)
    /\ call.args.new_name # Some(call.args.old_name)
    /\ \E r \in rlist : r.name = Unwrap(call.args.new_name) /\ r.author = "A" /\ r.added = 2
    /\ Cardinality(rlist) = 2
    /\ rlist_has_topic # EmptyBag

\* C7: an edit with an option, of a name that is not stored, fails with
\* NotFound and leaves the tables as they were.
C7_EditNotFound ==
    [][(/\ call'.op = "edit" /\ ~NoEditOption(call'.args)
        /\ ~ \E r \in rlist : r.name = call'.args.old_name)
       => (~ret'.ok /\ ret'.err = "NotFound" /\ StoreUnchanged)]_vars

\* An edit with add_topics alone, naming a topic the table does not hold, of a
\* name that is not stored.
C7_Witness ==
    /\ call.op = "edit" /\ ~ret.ok /\ ret.err = "NotFound"
    /\ IsNone(call.args.new_name) /\ IsNone(call.args.author) /\ IsNone(call.args.url)
    /\ IsSome(call.args.add_topics)
    /\ \E n \in Supplied(call.args.add_topics) : n \notin {t.name : t \in topics}
    /\ rlist # {}

\* C8: an edit with no option fails with InvalidArgument and leaves the
\* tables as they were, whether old_name is stored or not.
C8_EditNoOption ==
    [][(call'.op = "edit" /\ NoEditOption(call'.args))
       => (~ret'.ok /\ ret'.err = "InvalidArgument" /\ StoreUnchanged)]_vars

\* An edit with no option of a name that is not stored, refused as invalid.
C8_Witness ==
    /\ call.op = "edit" /\ NoEditOption(call.args)
    /\ ~ret.ok /\ ret.err = "InvalidArgument"
    /\ ~ \E r \in rlist : r.name = call.args.old_name
    /\ rlist # {}

\* What query reports for the entry of that name: its topics, as aggregated
\* from the join.
QueriedTopics(db, name) ==
    LET res == Aggregate(JoinRows(db), <<>>)
    IN  res[CHOOSE i \in 1..Len(res) : res[i].name = name].topics

\* C9: the topics of the entry a successful edit returns are the topics the
\* entry is linked to after the edit, each once, as a query reports them.
C9_EditReturnsStoredTopics ==
    (call.op = "edit" /\ ret.ok)
    => LET e == EntryNamed(DB, ret.val.name)
       IN  /\ Range(ret.val.topics) = TopicSetOf(DB, e.entry_id)
           /\ NoDuplicates(ret.val.topics)
           /\ Range(QueriedTopics(DB, ret.val.name)) = Range(ret.val.topics)
           /\ Len(QueriedTopics(DB, ret.val.name)) = Len(ret.val.topics)

\* An edit with add_topics and remove_topics that leaves the entry with one of
\* its old topics and one of the added ones.
C9_Witness ==
    /\ call.op = "edit" /\ ret.ok
    /\ call.args.add_topics = Some(<<"a", "b">>)
    /\ call.args.remove_topics = Some(<<"a">>)
    /\ IsNone(call.args.topics) /\ ~call.args.clear_topics
    /\ ret.val.topics = <<"b", "c">>

\* C10: after a successful add the store holds an entry with that name, url and
\* author, linked to the names of topics, and the entry add returned carries
\* the topics a query reports for it: the same names, each once.
C10_AddReturnsQueriedTopics ==
    (call.op = "add" /\ ret.ok)
    => /\ \E r \in rlist :
            /\ r.name = call.name /\ r.url = call.url /\ r.author = to_sql(call.author)
            /\ TopicSetOf(DB, r.entry_id) = Range(call.topics)
       /\ Range(ret.val.topics) = Range(QueriedTopics(DB, call.name))
       /\ Len(ret.val.topics) = Len(QueriedTopics(DB, call.name))

\* The names of the entries a call returned.
NamesOf(entries) == {entries[i].name : i \in 1..Len(entries)}

\* The stored rows that pass the WHERE clause of the call.
RowsPassing(q) == {r \in rlist : WhereClause(r, q)}

\* C11: a query with a topic list that is not empty returns, each once, the
\* entries that pass the row filters and, in AND mode, are linked to every
\* topic of the list or, in OR mode, to at least one; a name given twice
\* counts once.
C11_QueryTopicModes ==
    (/\ call.op = "query" /\ ret.ok
     /\ IsSome(call.args.topics) /\ call.args.topics # Some(<<>>))
    => LET R == Supplied(call.args.topics)
           matches(r) == IF call.args.or THEN TopicSetOf(DB, r.entry_id) \cap R # {}
                         ELSE R \subseteq TopicSetOf(DB, r.entry_id)
       IN  /\ NamesOf(ret.val) = {r.name : r \in {x \in RowsPassing(call.args) : matches(x)}}
           /\ Len(ret.val) = Cardinality(NamesOf(ret.val))

\* An AND query that names one topic twice returned an entry, and left out an
\* entry with topics that passes the name filter.
C11_Witness ==
    /\ call.op = "query" /\ ret.ok /\ ~call.args.or
    /\ call.args.topics = Some(<<"a", "a">>) /\ IsSome(call.args.query)
    /\ Len(ret.val) = 1 /\ Len(ret.val[1].topics) = 2
    /\ Cardinality(rlist) = 2 /\ Cardinality(DOMAIN rlist_has_topic) = 3

\* C12: a query with an empty topic list returns what the same query with no
\* topic list returns, in both modes.
C12_EmptyTopicListIsNoFilter ==
    (call.op = "query" /\ ret.ok /\ call.args.topics = Some(<<>>))
    => ret.val = RList_query(DB, [call.args EXCEPT !.topics = None]).val

\* Whether the bytes of needle stand, in that order and case, somewhere in hay.
IsSubstring(needle, hay) ==
    \E i \in 0..(Len(hay) - Len(needle)) : SubSeq(hay, i + 1, i + Len(needle)) = needle

\* Whether instant x is not later than instant y.
InstantLeq(x, y) == x.secs < y.secs \/ (x.secs = y.secs /\ x.nanos <= y.nanos)

\* C13: a query with no topic list returns, each once, the stored entries
\* whose name, author and url contain the strings given for them, in their
\* case, an entry without an author satisfying no author filter, and whose
\* added time is not before from and not after to; a filter not given
\* excludes nothing.
C13_QueryRowFilters ==
    (call.op = "query" /\ ret.ok /\ IsNone(call.args.topics))
    => LET q == call.args
           at(r) == [secs |-> r.added, nanos |-> 0]
           sat(r) ==
               /\ IsSome(q.query) => IsSubstring(Text(Unwrap(q.query)), Text(r.name))
               /\ IsSome(q.author) =>
                      /\ IsSome(opt_from_sql(r.author))
                      /\ IsSubstring(Text(Unwrap(q.author)), Text(r.author))
               /\ IsSome(q.url) => IsSubstring(Text(Unwrap(q.url)), Text(r.url))
               /\ IsSome(q.from) => InstantLeq(Unwrap(q.from), at(r))
               /\ IsSome(q.to) => InstantLeq(at(r), Unwrap(q.to))
       IN  /\ NamesOf(ret.val) = {r.name : r \in {x \in rlist : sat(x)}}
           /\ Len(ret.val) = Cardinality(NamesOf(ret.val))

\* Whether entry e1 may stand before entry e2 in a list ascending by key k, an
\* entry without an author standing before every entry with one.
EntryLeq(k, e1, e2) ==
    CASE k = "name" -> BinaryCompare(Text(e1.name), Text(e2.name)) <= 0
      [] k = "url" -> BinaryCompare(Text(e1.url), Text(e2.url)) <= 0
      [] k = "author" ->
            \/ IsNone(e1.author)
            \/ /\ IsSome(e2.author)
               /\ BinaryCompare(Text(Unwrap(e1.author)), Text(Unwrap(e2.author))) <= 0
      [] k = "added" -> e1.added <= e2.added

\* C14: a query with a sort key returns its entries in the order of that key,
\* ascending, or descending when desc is set, with or without a topic list.
C14_QuerySorted ==
    (call.op = "query" /\ ret.ok /\ IsSome(call.args.sort_by))
    => \A i \in 1..(Len(ret.val) - 1) :
          IF call.args.desc
          THEN EntryLeq(Unwrap(call.args.sort_by), ret.val[i + 1], ret.val[i])
          ELSE EntryLeq(Unwrap(call.args.sort_by), ret.val[i], ret.val[i + 1])

\* The tables after the step.
DBAfter == [rlist |-> rlist', topics |-> topics', links |-> rlist_has_topic']

\* The stored entries linked to at least one of the topics named.
LinkedToAny(names) == {r \in rlist : TopicSetOf(DB, r.entry_id) \cap Range(names) # {}}

\* How many entries of the list have that name.
TimesReturned(entries, name) == Cardinality({i \in 1..Len(entries) : entries[i].name = name})

C16_RemoveByTopicsAll ==
    [][(call'.op = "remove_by_topics" /\ ret'.ok /\ call'.topics # <<>>)
       => rlist' = rlist \ {r \in rlist : Range(call'.topics) \subseteq TopicSetOf(DB, r.entry_id)}]_vars

\* C17, as stated: an entry linked to two or more of the topics named is in
\* the list remove_by_topics returns two or more times.
C17_LinkedTwiceReturnedTwice ==
    [][(call'.op = "remove_by_topics" /\ ret'.ok)
       => \A r \in rlist :
             Cardinality(TopicSetOf(DB, r.entry_id) \cap Range(call'.topics)) >= 2
             => TimesReturned(ret'.val, r.name) >= 2]_vars

\* C17, amended: no entry is twice in the list remove_by_topics returns, also
\* when it was linked to two of the topics named or a topic is named twice.
C17_NoEntryReturnedTwice ==
    (call.op = "remove_by_topics" /\ ret.ok)
    => \A i \in 1..Len(ret.val) : TimesReturned(ret.val, ret.val[i].name) = 1

\* A removal by topics a and b returned, once, an entry linked to both.
C17_Witness ==
    /\ call.op = "remove_by_topics" /\ ret.ok /\ call.topics = <<"a", "b">>
    /\ Len(ret.val) = 1 /\ Range(ret.val[1].topics) = {"a", "b"}

\* The topic names an edit gives to be linked.
EditLinked(a) == IF IsSome(a.topics) THEN Supplied(a.topics) ELSE Supplied(a.add_topics)

\* C18: no step deletes a topic row or changes its id; after a successful add
\* or edit the topics it named have rows; and remove_by_topics fails, with
\* NotFound, exactly when it names a topic that has no row, and when every
\* topic named has a row and no entry is linked to any of them it succeeds,
\* returns no entry and leaves the tables as they were.
C18_TopicsStay ==
    [][/\ topics \subseteq topics'
       /\ (call'.op = "add" /\ ret'.ok)
          => Range(call'.topics) \subseteq {t.name : t \in topics'}
       /\ (call'.op = "edit" /\ ret'.ok)
          => EditLinked(call'.args) \subseteq {t.name : t \in topics'}
       /\ call'.op = "remove_by_topics"
          => /\ ret'.ok <=> Range(call'.topics) \subseteq {t.name : t \in topics}
             /\ ~ret'.ok => ret'.err = "NotFound"
             /\ (ret'.ok /\ LinkedToAny(call'.topics) = {})
                => (ret'.val = <<>> /\ StoreUnchanged)]_vars

\* A removal by a topic that has a row and no entry succeeded with no entry
\* returned, beside a stored entry.
C18_Witness ==
    /\ call.op = "remove_by_topics" /\ ret.ok /\ call.topics # <<>>
    /\ ret.val = <<>> /\ rlist # {} /\ rlist_has_topic = EmptyBag

\* The (name, url) pairs stored once import has gone through the first k
\* entries of the batch, an entry that shares a name or a url with a pair
\* already there adding none.
RECURSIVE TakenAfter(_, _)
TakenAfter(entries, k) ==
    IF k = 0 THEN {<<r.name, r.url>> : r \in rlist}
    ELSE LET before == TakenAfter(entries, k - 1)
             e == entries[k]
         IN  IF \E p \in before : p[1] = e.name \/ p[2] = e.url THEN before
             ELSE before \cup {<<e.name, e.url>>}

\* C19: import succeeds whatever collides; the rows stored before it and
\* their links stay as they were; and each entry of the batch that shares no
\* name and no url with a row stored before it or made earlier in the batch
\* is stored with its columns and linked to its topics, the others adding
\* nothing.
C19_ImportSkipsCollisions ==
    [][call'.op = "import"
       => LET entries == call'.entries
          IN  /\ ret'.ok
              /\ rlist \subseteq rlist'
              /\ \A r \in rlist : TopicSetOf(DBAfter, r.entry_id) = TopicSetOf(DB, r.entry_id)
              /\ {<<r.name, r.url>> : r \in rlist'} = TakenAfter(entries, Len(entries))
              /\ \A k \in 1..Len(entries) :
                    <<entries[k].name, entries[k].url>> \notin TakenAfter(entries, k - 1)
                    /\ <<entries[k].name, entries[k].url>> \in TakenAfter(entries, k)
                    => \E r \in rlist' :
                          /\ r.name = entries[k].name /\ r.url = entries[k].url
                          /\ r.author = to_sql(entries[k].author)
                          /\ TopicSetOf(DBAfter, r.entry_id) = Range(entries[k].topics)]_vars

\* An import of two entries skipped the first, whose name a stored entry with
\* another url has, and stored the second with its topic.
C19_Witness ==
    /\ call.op = "import" /\ ret.ok /\ Len(call.entries) = 2 /\ ret.val = 1
    /\ Cardinality(rlist) = 2
    /\ call.entries[2].topics = <<"b">>
    /\ \E r \in rlist : r.name = call.entries[1].name /\ r.url # call.entries[1].url
    /\ \E r \in rlist : r.name = call.entries[2].name /\ TopicSetOf(DB, r.entry_id) = {"b"}

\* C20: the count import returns is the number of rows it added to rlist.
C20_ImportCount ==
    [][call'.op = "import"
       => (ret'.ok /\ ret'.val = Cardinality(rlist') - Cardinality(rlist))]_vars


\* A store with no table rows, as RList::init leaves a new file.
EmptyDB == [rlist |-> {}, topics |-> {}, links |-> EmptyBag]

\* The entries of a store as (name, url, author, topic set), the author as
\* the column holds it.
TuplesOf(db) ==
    {<<r.name, r.url, r.author, TopicSetOf(db, r.entry_id)>> : r \in db.rlist}

\* C21: the list dump_all returns, imported into an empty store at any time,
\* gives a store with the same (name, url, author, topic set) tuples as the
\* store that was dumped, entries without topics and without author included.
C21_DumpImportRoundTrip ==
    call.op = "dump_all"
    => /\ ret.ok
       /\ \A now \in Times :
            TuplesOf(RList_import(EmptyDB, ret.val, now).db) = TuplesOf(DB)

\* A dump of two entries: one with no author and no topic, one with an author
\* and two topics.
C21_Witness ==
    /\ call.op = "dump_all"
    /\ Len(ret.val) = MaxId
    /\ \E i \in 1..Len(ret.val) : IsNone(ret.val[i].author) /\ ret.val[i].topics = <<>>
    /\ \E i \in 1..Len(ret.val) : IsSome(ret.val[i].author) /\ Len(ret.val[i].topics) = 2

\* C22: the entries query and dump_all return have pairwise different names,
\* each is a stored entry, and each carries exactly the names of the topics
\* that entry is linked to, each once (none for an entry without links),
\* whatever the row filters, the sort key and the topic filter of the call.
C22_OneRecordPerEntry ==
    (call.op \in {"query", "dump_all"} /\ ret.ok)
    => /\ \A i, j \in 1..Len(ret.val) : ret.val[i].name = ret.val[j].name => i = j
       /\ \A i \in 1..Len(ret.val) :
            \E r \in rlist :
                /\ r.name = ret.val[i].name
                /\ Range(ret.val[i].topics) = TopicSetOf(DB, r.entry_id)
                /\ NoDuplicates(ret.val[i].topics)

\* A sorted, descending query filtered on topic "a" alone that returns two
\* entries, each with both of its topics.
C22_Witness ==
    /\ call.op = "query" /\ ret.ok
    /\ IsSome(call.args.sort_by) /\ call.args.desc
    /\ call.args.topics = Some(<<"a">>)
    /\ Len(ret.val) = 2
    /\ \A i \in 1..Len(ret.val) : ret.val[i].topics = <<"a", "b">>

\* C23: create_many on a non-empty list succeeds and returns one id per
\* position, position i holding the id of the topic named names[i]: the id
\* that topic had before when it existed, an id no topic had before otherwise,
\* the same id wherever the name is repeated and on a second call; it adds a
\* row only for the names that were not there and changes no other row.
C23_CreateManyIds ==
    [][(call'.op = "create_many" /\ call'.names # <<>>)
       => LET names == call'.names
              old(n) == {t \in topics : t.name = n}
          IN  /\ ret'.ok
              /\ Len(ret'.val) = Len(names)
              /\ \A i \in 1..Len(names) :
                    /\ [topic_id |-> ret'.val[i], name |-> names[i]] \in topics'
                    /\ \A t \in old(names[i]) : ret'.val[i] = t.topic_id
                    /\ old(names[i]) = {} => ret'.val[i] \notin {t.topic_id : t \in topics}
                    /\ \A j \in 1..Len(names) :
                          names[i] = names[j] <=> ret'.val[i] = ret'.val[j]
              /\ topics \subseteq topics'
              /\ {t.name : t \in topics'} = {t.name : t \in topics} \cup Range(names)
              /\ Cardinality(topics') = Cardinality({t.name : t \in topics'})
              /\ create_many(DBAfter, names) = Ok(DBAfter, ret'.val)
              /\ UNCHANGED <<rlist, rlist_has_topic>>]_vars

\* create_many(["c", "a"]) on a store where "a" and "b" exist: the id "a" had,
\* and the next free id for "c".
C23_Witness ==
    /\ call.op = "create_many" /\ ret.ok
    /\ call.names = <<"c", "a">>
    /\ ret.val = <<3, 1>>
    /\ [topic_id |-> 2, name |-> "b"] \in topics

\* C24: rlist_has_topic never holds a row twice; associate_with_topics with a
\* non-empty list of ids of topics that exist, for an entry that exists,
\* succeeds whether or not a pair is linked already or an id comes twice, adds
\* the pairs that were not linked and changes nothing else, and the same call
\* made again succeeds and leaves the store as the first call left it.
C24_LinkOnce ==
    [][/\ \A row \in DOMAIN rlist_has_topic' : CopiesIn(row, rlist_has_topic') = 1
       /\ (/\ call'.op = "associate_with_topics"
           /\ call'.topic_ids # <<>>
           /\ call'.entry_id \in {r.entry_id : r \in rlist}
           /\ Range(call'.topic_ids) \subseteq {t.topic_id : t \in topics})
          => LET pairs == {[entry_id |-> call'.entry_id, topic_id |-> id] :
                               id \in Range(call'.topic_ids)}
             IN  /\ ret'.ok
                 /\ DOMAIN rlist_has_topic' = DOMAIN rlist_has_topic \cup pairs
                 /\ UNCHANGED <<rlist, topics>>
                 /\ associate_with_topics(DBAfter, call'.entry_id, call'.topic_ids)
                        = Ok(DBAfter, <<>>)]_vars

\* A successful call with the same id twice, on an entry that is linked to
\* that topic and to another one.
C24_Witness ==
    /\ call.op = "associate_with_topics" /\ ret.ok
    /\ call.topic_ids = <<2, 2>>
    /\ {row.topic_id : row \in {x \in DOMAIN rlist_has_topic : x.entry_id = call.entry_id}}
           = {1, 2}

\* C25: associate_with_topics with an empty list of ids for an entry and
\* unlink_topics_by_name with an empty list of names succeed and leave the
\* store as it was, and edit with an empty --topics list on an entry that
\* exists succeeds and leaves that entry linked to no topic.
C25_EmptyListsAreNoOps ==
    [][/\ (/\ call'.op = "associate_with_topics" /\ call'.topic_ids = <<>>
           /\ call'.entry_id \in {r.entry_id : r \in rlist})
          => (ret'.ok /\ StoreUnchanged)
       /\ (call'.op = "unlink_topics_by_name" /\ call'.names = <<>>)
          => (ret'.ok /\ StoreUnchanged)
       /\ (/\ call'.op = "edit"
           /\ call'.args.topics = Some(<<>>)
           /\ \E r \in rlist : r.name = call'.args.old_name)
          => /\ ret'.ok
             /\ TopicSetOf(DBAfter, EntryNamed(DB, call'.args.old_name).entry_id) = {}]_vars

\* The author query, dump_all and remove_by_name report for the entry of that
\* name is a.
ReportsAuthor(db, name, a) ==
    LET queried == RList_query(db, NoQuery).val
        dumped == RList_dump_all(db).val
    IN  /\ \E i \in 1..Len(queried) : queried[i].name = name /\ queried[i].author = a
        /\ \E i \in 1..Len(dumped) : dumped[i].name = name /\ dumped[i].author = a
        /\ RList_remove_by_name(db, name).ok
        /\ RList_remove_by_name(db, name).val.author = a

\* C26: after a successful add, and after a successful edit that sets the
\* author, query, dump_all and remove_by_name report the entry's author as the
\* value that was given: absent when it was absent, the string when it was a
\* string, the string "NULL" included.
C26_AuthorRoundTrip ==
    /\ (call.op = "add" /\ ret.ok) => ReportsAuthor(DB, call.name, call.author)
    /\ (call.op = "edit" /\ ret.ok /\ IsSome(call.args.author))
       => ReportsAuthor(DB, ret.val.name, call.args.author)

\* The first position of names that holds a name no topic has.
FirstMissing(names) ==
    MinOf({i \in 1..Len(names) : names[i] \notin {t.name : t \in topics}})

\* C27: when remove_by_topics fails, it fails with NotFound at the first
\* requested name no topic has; the entries linked to a name requested before
\* that one are deleted with their links, every other entry and link and every
\* topic stays, and the call returns no list of the entries it deleted.
C27_RemoveByTopicsNotAtomic ==
    [][(call'.op = "remove_by_topics" /\ ~ret'.ok)
       => LET names == call'.topics
              k == FirstMissing(names)
              gone == LinkedToAny(SubSeq(names, 1, k - 1))
          IN  /\ ret'.err = "NotFound"
              /\ \E i \in 1..Len(names) : names[i] \notin {t.name : t \in topics}
              /\ rlist' = rlist \ gone
              /\ rlist_has_topic' =
                     KeepRows(rlist_has_topic,
                              {row \in DOMAIN rlist_has_topic :
                                   row.entry_id \notin {r.entry_id : r \in gone}})
              /\ topics' = topics
              /\ ret'.val = <<>>]_vars

\* A call that failed at its second name after its first name took the entry
\* with id 1: the entry with id 2 is left, and topic 1 has no link.
C27_Witness ==
    /\ call.op = "remove_by_topics" /\ ~ret.ok
    /\ Len(call.topics) = 2
    /\ call.topics[1] \in {t.name : t \in topics}
    /\ call.topics[2] \notin {t.name : t \in topics}
    /\ {r.entry_id : r \in rlist} = {2}
    /\ \A row \in DOMAIN rlist_has_topic : row.topic_id # TopicIdOf(topics, call.topics[1])
====
